---------------------------- MODULE Spec2Model ----------------------------
(***************************************************************************)
(* sdrangelToRaw (src/main.go): converts an SDRangel IQ capture file into  *)
(* a RIFF/WAVE file and a text report of the capture header.               *)
(*                                                                         *)
(* The model follows func main() statement by statement.  Bytes are the    *)
(* integers 0..255, a []byte is a sequence of bytes (1-based here, 0-based *)
(* in the source), fixed-width integers are kept in range with % 2^w.      *)
(***************************************************************************)
EXTENDS Integers, Sequences, FiniteSets, TLC

(***************************************************************************)
(* Fixed-width integers.  A uint32 or uint64 is held as its 16-bit limbs,  *)
(* most significant first (2 limbs for a uint32, 4 for a uint64), so every *)
(* intermediate result stays inside the width the Go type has.             *)
(***************************************************************************)
Limb == 2 ^ 16

\* The element of a one-element set.  Only({ F(v) : v \in { e } }) is F(e) with
\* e evaluated once, before F is applied (an operator's argument is otherwise
\* evaluated again at each place the operator uses it).
Only(S) == CHOOSE r \in S : TRUE

RECURSIVE Xor(_, _)
Xor(a, b) ==
    IF a = 0 THEN b
    ELSE IF b = 0 THEN a
    ELSE (((a % 2) + (b % 2)) % 2) + 2 * Xor(a \div 2, b \div 2)

\* uint32(n) of a non-negative int n.
ToU32(n) == << (n \div Limb) % Limb, n % Limb >>

\* a ^ b on uint32.
Xor32(a, b) == << Xor(a[1], b[1]), Xor(a[2], b[2]) >>

\* a >> 1 and a >> 8 on uint32 (logical shifts).
Shr1(a) == << a[1] \div 2, (a[1] % 2) * 32768 + a[2] \div 2 >>

Shr8(a) == << a[1] \div 256, (a[1] % 256) * 256 + a[2] \div 256 >>

\* a * c on uint32, wrapping modulo 2^32 (c a small constant).
MulU32(a, c) == << (a[1] * c + (a[2] * c) \div Limb) % Limb, (a[2] * c) % Limb >>

\* a / c on uint32 (c a small constant): long division over the limbs.
DivU32(a, c) == << a[1] \div c, ((a[1] % c) * Limb + a[2]) \div c >>

\* int32(a): the two's complement reading of a uint32.
Int32(a) == IF a[1] >= 32768 THEN (a[1] - Limb) * Limb + a[2] ELSE a[1] * Limb + a[2]

\* s << 8 on int32: the low 24 bits move up, the top 8 bits are lost.
Shl8Int32(s) ==
    LET low24 == s % 16777216
    IN  IF low24 >= 8388608 THEN (low24 - 16777216) * 256 ELSE low24 * 256

\* s >> 16 on int32: arithmetic shift, rounding towards minus infinity.
Shr16Int32(s) == s \div Limb

\* uint16(s) of an int32.
Uint16OfInt32(s) == s % Limb

(***************************************************************************)
(* encoding/binary.LittleEndian                                            *)
(***************************************************************************)
RECURSIVE LittleEndianUint(_)
LittleEndianUint(b) ==
    IF b = << >> THEN << >>
    ELSE LittleEndianUint(SubSeq(b, 3, Len(b))) \o << b[1] + 256 * b[2] >>

Uint32(b) == LittleEndianUint(SubSeq(b, 1, 4))

Uint64(b) == LittleEndianUint(SubSeq(b, 1, 8))

RECURSIVE PutUint(_)
PutUint(v) ==
    IF v = << >> THEN << >>
    ELSE << v[Len(v)] % 256, v[Len(v)] \div 256 >> \o PutUint(SubSeq(v, 1, Len(v) - 1))

PutUint16(v) == PutUint(<< v >>)

PutUint32(v) == PutUint(v)

\* The Go slice expression s[lo:hi], 0-based and half-open.
Slice(s, lo, hi) == SubSeq(s, lo + 1, hi)

(***************************************************************************)
(* hash/crc32.ChecksumIEEE: the table-driven CRC-32 of the IEEE polynomial *)
(* (reflected form 0xEDB88320), initial value and final xor 0xFFFFFFFF.    *)
(***************************************************************************)
IEEE == << 60856, 33568 >>

AllOnes == << 65535, 65535 >>

\* One entry of the table: 8 steps of the bitwise CRC on the byte.
RECURSIVE TableEntry(_, _)
TableEntry(crc, k) ==
    IF k = 0 THEN crc
    ELSE Only({ TableEntry(next, k - 1) :
                  next \in { IF crc[2] % 2 = 1 THEN Xor32(Shr1(crc), IEEE) ELSE Shr1(crc) } })

RECURSIVE TableRows(_, _)
TableRows(from, n) ==
    IF n = 0 THEN << >>
    ELSE Append(TableRows(from, n - 1), TableEntry(ToU32(from + n - 1), 8))

\* crc32.IEEETable, entry b at index b + 1.
IEEETable ==
    TableRows(0, 32) \o TableRows(32, 32) \o TableRows(64, 32) \o TableRows(96, 32)
    \o TableRows(128, 32) \o TableRows(160, 32) \o TableRows(192, 32) \o TableRows(224, 32)

\* crc = tab[byte(crc) ^ b] ^ (crc >> 8), for each byte b of p from index k on.
RECURSIVE CrcUpdate(_, _, _)
CrcUpdate(crc, p, k) ==
    IF k > Len(p) THEN crc
    ELSE Only({ CrcUpdate(next, p, k + 1) :
                  next \in { Xor32(IEEETable[Xor(crc[2] % 256, p[k]) + 1], Shr8(crc)) } })

ChecksumIEEE(p) == Xor32(CrcUpdate(AllOnes, p, 1), AllOnes)

(***************************************************************************)
(* Program constants                                                       *)
(***************************************************************************)
\* header := content[:32]
HeaderSize == 32

\* crc32.ChecksumIEEE(header[:28])
CrcCovered == 28

\* startIndex := 32
StartIndex == 32

\* the 4-byte group of the loop: len(content[startIndex:])/4, startIndex + (i * 4)
GroupSize == 4

\* bodySamples := body[44:], dataSize := len(body) - 44
WaveHeaderSize == 44

(***************************************************************************)
(* type Header and func (h *Header) String()                               *)
(***************************************************************************)
\* time.UnixMilli(int64(timestamp)): the instant is held as its millisecond
\* count, the 64-bit pattern of the int64 (zero marks Go's zero time.Time).
UnixMilli(msec) == [zero |-> FALSE, msec |-> msec]

ZeroTime == [zero |-> TRUE, msec |-> << 0, 0, 0, 0 >>]

\* var h Header
ZeroHeader ==
    [SampleRate |-> << 0, 0 >>, CenterFreq |-> << 0, 0, 0, 0 >>, Timestamp |-> ZeroTime,
     SampleSize |-> << 0, 0 >>, Reserved |-> << 0, 0 >>, CRC |-> << 0, 0 >>,
     CRCValid |-> FALSE]

\* The long division of a limb sequence by 10: quotient and remainder.
RECURSIVE DivMod10(_, _)
DivMod10(v, carry) ==
    IF v = << >> THEN [q |-> << >>, r |-> carry]
    ELSE LET cur == carry * Limb + v[1]
         IN  Only({ [q |-> << cur \div 10 >> \o rest.q, r |-> rest.r] :
                      rest \in { DivMod10(Tail(v), cur % 10) } })

IsZero(v) == \A k \in 1..Len(v) : v[k] = 0

\* The %d verb on an unsigned integer: its decimal digits, most significant first.
RECURSIVE FormatUint(_)
FormatUint(v) ==
    Only({ IF IsZero(d.q) THEN << d.r >> ELSE FormatUint(d.q) \o << d.r >> :
             d \in { DivMod10(v, 0) } })

\* strconv.FormatBool
FormatBool(b) == IF b THEN "true" ELSE "false"

\* The report text, field by field in the order of the format string; the
\* rendering of the time.Time depends on the local time zone and is kept as
\* the instant.
String(hd) ==
    [SampleRate |-> FormatUint(hd.SampleRate),
     CenterFreq |-> FormatUint(hd.CenterFreq),
     Timestamp  |-> hd.Timestamp,
     SampleSize |-> FormatUint(hd.SampleSize),
     CRC        |-> FormatBool(hd.CRCValid)]

(***************************************************************************)
(* The header decoder, main() lines 62-84                                  *)
(***************************************************************************)
\* What content[:32] reads: the bytes of content and, past its length but
\* inside its capacity, the zero bytes io.ReadAll's buffer was made with.
HeaderBytes(c) ==
    [k \in 1..HeaderSize |-> IF k <= Len(c) THEN c[k] ELSE 0]

\* The sample rate read from the wrong field (the low half of center_freq).
SampleRateOf_FromCenterFreq(header) == Uint32(Slice(header, 4, 8))

SampleRateOf(header) == Uint32(Slice(header, 0, 4))

\* The checksum taken over the whole header, the stored value included.
CrcOf_WholeHeader(header) == ChecksumIEEE(Slice(header, 0, HeaderSize))

CrcOf(header) == ChecksumIEEE(Slice(header, 0, CrcCovered))

DecodeHeader(header) ==
    LET stored == Uint32(Slice(header, 28, 32))
    IN  [SampleRate |-> SampleRateOf(header),
         CenterFreq |-> Uint64(Slice(header, 4, 12)),
         Timestamp  |-> UnixMilli(Uint64(Slice(header, 12, 20))),
         SampleSize |-> Uint32(Slice(header, 20, 24)),
         Reserved   |-> Uint32(Slice(header, 24, 28)),
         CRC        |-> stored,
         CRCValid   |-> (CrcOf(header) = stored)]

(***************************************************************************)
(* The sample re-encoder, main() lines 95-169                              *)
(***************************************************************************)
\* sampleRateCalc := (sampleRate * 16 * 2) / 8, in uint32
SampleRateCalc(sampleRate) == DivU32(MulU32(MulU32(sampleRate, 16), 2), 8)

\* waveHeader := []byte{...}
WaveHeader(sampleRate) ==
    << 82, 73, 70, 70 >> \o << 0, 0, 0, 0 >> \o << 87, 65, 86, 69 >>
    \o << 102, 109, 116, 32 >> \o << 16, 0, 0, 0 >> \o << 1, 0 >> \o << 2, 0 >>
    \o PutUint32(sampleRate) \o PutUint32(SampleRateCalc(sampleRate))
    \o << 4, 0 >> \o << 16, 0 >> \o << 100, 97, 116, 97 >> \o << 0, 0, 0, 0 >>

\* The number of groups rounded up, a partial group counted as one.
NumGroups_RoundUp(c) == (Len(c) - StartIndex + GroupSize - 1) \div GroupSize

\* len(content[startIndex:])/4: the number of iterations of the loop.
NumGroups(c) == (Len(c) - StartIndex) \div GroupSize

\* The high 16 bits of the sample, as convertTo16Bit takes them (sample >> 16).
Convert_High16(sample) == Uint16OfInt32(Shr16Int32(sample))

\* sample = sample << 8; sample = sample >> 16; uint16(sample)
Convert(sample) == Uint16OfInt32(Shr16Int32(Shl8Int32(sample)))

\* index := startIndex + (i * 4)
Index(idx) == StartIndex + (idx * GroupSize)

\* binary.LittleEndian.Uint32(content[index:]) needs 4 bytes from index on and
\* panics without them.
Readable(c, idx) == Index(idx) + 4 <= Len(c)

\* The bytes one iteration of the loop appends for index i.
SampleBytes(c, idx) ==
    LET sample == Int32(Uint32(Slice(c, Index(idx), Len(c))))
    IN  PutUint16(Convert(sample))

\* The file size field without the 8 bytes taken off.
FileSizeField_NoOffset(b) == PutUint32(ToU32(Len(b)))

\* fileSize := len(body) - 8, written to body[4:8]
FileSizeField(b) == PutUint32(ToU32(Len(b) - 8))

\* dataSize := len(body) - 44, written to body[40:44]
DataSizeField(b) == PutUint32(ToU32(Len(b) - WaveHeaderSize))

\* The two back-patches of the header, lines 146-169.
PatchSizes(b) ==
    [k \in 1..Len(b) |->
        IF k \in 5..8 THEN FileSizeField(b)[k - 4]
        ELSE IF k \in 41..44 THEN DataSizeField(b)[k - 40]
        ELSE b[k]]

\* logrus.Info("body samples length: ", bodySamplesLen%8)
BodySamplesLen(b) == (Len(b) - WaveHeaderSize) \div 2

(***************************************************************************)
(* The input files the model runs the program on                           *)
(***************************************************************************)
\* The largest number of whole 4-byte groups in a sample stream.
MaxGroups == 2

Rates == { ToU32(0), ToU32(8000), ToU32(48000), ToU32(134217728), << 65535, 65535 >> }

\* center_freq, timestamp_ms, sample_size, reserved
Mids ==
    { [cf |-> << 0, 0, 0, 0 >>, ts |-> << 0, 0, 0, 0 >>, ss |-> << 0, 0 >>, rs |-> << 0, 0 >>],
      [cf |-> << 0, 0, 6621, 6144 >>, ts |-> << 0, 395, 53221, 26747 >>,
       ss |-> << 0, 16 >>, rs |-> << 0, 0 >>],
      [cf |-> << 65535, 65535, 65535, 65535 >>, ts |-> << 65535, 65535, 65535, 65535 >>,
       ss |-> << 0, 24 >>, rs |-> << 57005, 48879 >>] }

Covered(rate, mid) ==
    PutUint32(rate) \o PutUint(mid.cf) \o PutUint(mid.ts) \o PutUint32(mid.ss)
    \o PutUint32(mid.rs)

\* A header whose stored checksum is the right one, and one whose is not.
GoodHeader(rate, mid) ==
    Covered(rate, mid) \o PutUint32(ChecksumIEEE(Covered(rate, mid)))

BadHeader(rate, mid) ==
    Covered(rate, mid) \o PutUint32(Xor32(ChecksumIEEE(Covered(rate, mid)), << 0, 1 >>))

Headers ==
    { GoodHeader(r, m) : r \in Rates, m \in Mids } \cup { BadHeader(r, m) : r \in Rates, m \in Mids }

\* The header with bit (bit % 8) of byte (bit \div 8) flipped.
FlipBit(header, bit) ==
    [k \in 1..Len(header) |->
        IF k = (bit \div 8) + 1 THEN Xor(header[k], 2 ^ (bit % 8)) ELSE header[k]]

\* 0x00010000, 0xFFFE0000, 0x12345678, 0x7F8000FF, 0x807FFF01 as little-endian bytes
Groups ==
    { << 0, 0, 1, 0 >>, << 0, 0, 254, 255 >>, << 120, 86, 52, 18 >>,
      << 255, 0, 128, 127 >>, << 1, 255, 127, 128 >> }

RECURSIVE GroupSeqs(_)
GroupSeqs(n) ==
    IF n = 0 THEN { << >> }
    ELSE LET shorter == GroupSeqs(n - 1)
         IN  shorter \cup { s \o g : s \in { t \in shorter : Len(t) = GroupSize * (n - 1) },
                                     g \in Groups }

\* Whole groups followed by a partial group of 0 to 3 bytes.
Streams ==
    { s \o SubSeq(<< 170, 187, 204 >>, 1, t) : s \in GroupSeqs(MaxGroups), t \in 0..(GroupSize - 1) }

FewStreams == { << >>, << 0, 0, 1, 0 >> \o << 0, 0, 254, 255 >>, << 255, 0, 128, 127, 9 >> }

BaseMid == CHOOSE m \in Mids : IsZero(m.cf) /\ IsZero(m.ss)

\* An input file: its bytes, how it was built, and what its stored checksum is
\* ("right", "wrong", "kept" from before a bit flip, "none" when cut short).
Whole(stored, data) == [kind |-> "whole", stored |-> stored, flip |-> -1, data |-> data]

Inputs ==
    \* every header with a few streams
    { Whole("right", GoodHeader(r, m) \o st) : r \in Rates, m \in Mids, st \in FewStreams }
    \cup { Whole("wrong", BadHeader(r, m) \o st) : r \in Rates, m \in Mids, st \in FewStreams }
    \* one header with every stream
    \cup { Whole("right", GoodHeader(ToU32(8000), BaseMid) \o st) : st \in Streams }
    \* a header with the right checksum and one bit of bytes [0:28) flipped
    \cup { [kind |-> "flipped", stored |-> "kept", flip |-> bit,
            data |-> FlipBit(GoodHeader(r, BaseMid), bit) \o << 0, 0, 1, 0 >>] :
           r \in { ToU32(8000), << 65535, 65535 >> }, bit \in 0..(8 * CrcCovered - 1) }
    \* files shorter than the header
    \cup { [kind |-> "short", stored |-> "none", flip |-> -1,
            data |-> SubSeq(GoodHeader(ToU32(48000), BaseMid), 1, n)] : n \in 0..(HeaderSize - 1) }

(***************************************************************************)
(* func main()                                                             *)
(***************************************************************************)
VARIABLES
    input,       \* the input file: how it was built (flip, kind) and its bytes
    pc,          \* the statement main() is at
    fileOpen,    \* file: the input file is open
    content,     \* content
    roomy,       \* cap(content) >= 32
    h,           \* h
    stdout,      \* what fmt.Println printed
    log,         \* what logrus logged
    reportFile,  \* <output>-info.txt
    wavFile,     \* <output>-iq.wav
    body,        \* body
    i,           \* the loop's i
    exitCode,    \* the process's exit status, -1 while it runs
    events,      \* the steps completed so far, in order
    ioFailed     \* an open, read, write or close has failed

vars ==
    << input, pc, fileOpen, content, roomy, h, stdout, log, reportFile, wavFile, body, i,
       exitCode, events, ioFailed >>

Absent == [state |-> "absent", data |-> << >>]

Info(msg, val) == [level |-> "info", msg |-> msg, val |-> val]

Init ==
    /\ input \in Inputs
    /\ pc = "open"
    /\ fileOpen = FALSE
    /\ content = << >>
    /\ roomy = FALSE
    /\ h = ZeroHeader
    /\ stdout = << >>
    /\ log = << >>
    /\ reportFile = Absent
    /\ wavFile = Absent
    /\ body = << >>
    /\ i = 0
    /\ exitCode = -1
    /\ events = << >>
    /\ ioFailed = FALSE

\* logrus.WithError(err).Fatal(msg): log the message and exit with status 1.
Fatal(msg) ==
    /\ pc' = "fatal"
    /\ log' = Append(log, [level |-> "fatal", msg |-> msg, val |-> 0])
    /\ exitCode' = 1

\* A run-time panic (slice bounds out of range): exit with status 2.
Panic ==
    /\ pc' = "panic"
    /\ exitCode' = 2

\* ioutil.WriteFile failed: the file could not be created, or was created and
\* not written in full (its bytes are then left open).
FailedWrites == { Absent, [state |-> "partial", data |-> << >>] }

Written(data) == [state |-> "complete", data |-> data]

\* file, err := os.OpenFile(...), lines 51-54
OpenFile ==
    /\ pc = "open"
    /\ \/ /\ pc' = "read"
          /\ fileOpen' = TRUE
          /\ events' = Append(events, "open")
          /\ UNCHANGED << log, exitCode, ioFailed >>
       \/ /\ Fatal("error opening file")
          /\ ioFailed' = TRUE
          /\ UNCHANGED << fileOpen, events >>
    /\ UNCHANGED << input, content, roomy, h, stdout, reportFile, wavFile, body, i >>

\* Whether the slice io.ReadAll returns for n bytes can have room for 32: its
\* capacity is the build's choice (512 to start with, or the exact size).
Roomy(n) == IF n >= HeaderSize THEN { TRUE } ELSE BOOLEAN

\* content, err := ioutil.ReadAll(file), lines 57-60
ReadAll ==
    /\ pc = "read"
    /\ \/ /\ pc' = "decode"
          /\ content' = input.data
          /\ roomy' \in Roomy(Len(input.data))
          /\ events' = Append(events, "read")
          /\ UNCHANGED << log, exitCode, ioFailed >>
       \/ /\ Fatal("error reading file")
          /\ ioFailed' = TRUE
          /\ UNCHANGED << content, roomy, events >>
    /\ UNCHANGED << input, fileOpen, h, stdout, reportFile, wavFile, body, i >>

\* The decoder with a checksum mismatch made fatal.
Decode_FatalOnMismatch ==
    /\ pc = "decode"
    /\ IF roomy
       THEN LET decoded == DecodeHeader(HeaderBytes(content))
            IN  IF decoded.CRCValid
                THEN /\ h' = decoded
                     /\ stdout' = Append(stdout, String(decoded))
                     /\ events' = Append(events, "decode")
                     /\ pc' = "report"
                     /\ UNCHANGED << log, exitCode >>
                ELSE /\ h' = decoded
                     /\ Fatal("CRC mismatch")
                     /\ UNCHANGED << stdout, events >>
       ELSE /\ Panic
            /\ UNCHANGED << h, log, stdout, events >>
    /\ UNCHANGED << input, fileOpen, content, roomy, reportFile, wavFile, body, i, ioFailed >>

\* lines 63-87: slice the header, decode it, check the checksum, print it.
Decode ==
    /\ pc = "decode"
    /\ IF roomy
       THEN LET decoded == DecodeHeader(HeaderBytes(content))
            IN  /\ h' = decoded
                /\ log' = IF decoded.CRCValid THEN log
                          ELSE Append(log, Info("CRC mismatch", 0))
                /\ stdout' = Append(stdout, String(decoded))
                /\ events' = Append(events, "decode")
                /\ pc' = "report"
                /\ UNCHANGED exitCode
       ELSE /\ Panic
            /\ UNCHANGED << h, log, stdout, events >>
    /\ UNCHANGED << input, fileOpen, content, roomy, reportFile, wavFile, body, i, ioFailed >>

\* err = ioutil.WriteFile(output+"-info.txt", []byte(h.String()), 0644), lines 90-93
WriteReport ==
    /\ pc = "report"
    /\ \/ /\ reportFile' = Written(String(h))
          /\ events' = Append(events, "report")
          /\ pc' = "wave"
          /\ UNCHANGED << log, exitCode, ioFailed >>
       \/ /\ reportFile' \in FailedWrites
          /\ Fatal("error writing file")
          /\ ioFailed' = TRUE
          /\ UNCHANGED events
    /\ UNCHANGED << input, fileOpen, content, roomy, h, stdout, wavFile, body, i >>

\* lines 95-127: the wave header becomes the body.
BuildWaveHeader ==
    /\ pc = "wave"
    /\ body' = WaveHeader(h.SampleRate)
    /\ i' = 0
    /\ pc' = "loop"
    /\ UNCHANGED << input, fileOpen, content, roomy, h, stdout, log, reportFile, wavFile,
                    exitCode, events, ioFailed >>

\* for i := 0; i < len(content[startIndex:])/4; i++ { ... }, lines 128-137.
\* content[startIndex:] panics when content is shorter than startIndex.
Loop ==
    /\ pc = "loop"
    /\ IF Len(content) < StartIndex
       THEN /\ Panic
            /\ UNCHANGED << body, i, events >>
       ELSE IF i < NumGroups(content)
       THEN IF Readable(content, i)
            THEN /\ body' = body \o SampleBytes(content, i)
                 /\ i' = i + 1
                 /\ UNCHANGED << pc, exitCode, events >>
            ELSE /\ Panic
                 /\ UNCHANGED << body, i, events >>
       ELSE /\ pc' = "patch"
            /\ events' = Append(events, "encode")
            /\ UNCHANGED << body, i, exitCode >>
    /\ UNCHANGED << input, fileOpen, content, roomy, h, stdout, log, reportFile, wavFile,
                    ioFailed >>

\* lines 139-169: log the alignment figure, back-patch the two size fields.
Patch ==
    /\ pc = "patch"
    /\ log' = Append(log, Info("body samples length: ", BodySamplesLen(body) % 8))
    /\ body' = PatchSizes(body)
    /\ pc' = "container"
    /\ UNCHANGED << input, fileOpen, content, roomy, h, stdout, reportFile, wavFile, i,
                    exitCode, events, ioFailed >>

\* The container written ahead of the loop, from the body as it then is.
WriteContainer_BeforeEncoding ==
    /\ pc = "loop"
    /\ i = 0
    /\ wavFile = Absent
    /\ wavFile' = Written(body)
    /\ events' = Append(events, "container")
    /\ UNCHANGED << input, pc, fileOpen, content, roomy, h, stdout, log, reportFile, body, i,
                    exitCode, ioFailed >>

\* err = ioutil.WriteFile(output+"-iq.wav", body, 0644), lines 172-175
WriteContainer ==
    /\ pc = "container"
    /\ \/ /\ wavFile' = Written(body)
          /\ events' = Append(events, "container")
          /\ pc' = "close"
          /\ UNCHANGED << log, exitCode, ioFailed >>
       \/ /\ wavFile' \in FailedWrites
          /\ Fatal("error writing file")
          /\ ioFailed' = TRUE
          /\ UNCHANGED events
    /\ UNCHANGED << input, fileOpen, content, roomy, h, stdout, reportFile, body, i >>

\* err = file.Close(), lines 178-181
CloseFile ==
    /\ pc = "close"
    /\ \/ /\ fileOpen' = FALSE
          /\ events' = Append(events, "close")
          /\ pc' = "exit"
          /\ UNCHANGED << log, exitCode, ioFailed >>
       \/ /\ Fatal("error closing file")
          /\ ioFailed' = TRUE
          /\ UNCHANGED << fileOpen, events >>
    /\ UNCHANGED << input, content, roomy, h, stdout, reportFile, wavFile, body, i >>

\* logrus.Info("done"); os.Exit(0), lines 184-187
Exit ==
    /\ pc = "exit"
    /\ log' = Append(log, Info("done", 0))
    /\ exitCode' = 0
    /\ pc' = "done"
    /\ UNCHANGED << input, fileOpen, content, roomy, h, stdout, reportFile, wavFile, body, i,
                    events, ioFailed >>

Next ==
    \/ OpenFile
    \/ ReadAll
    \/ Decode
    \/ WriteReport
    \/ BuildWaveHeader
    \/ Loop
    \/ Patch
    \/ WriteContainer
    \/ CloseFile
    \/ Exit

Spec == Init /\ [][Next]_vars

\* The process has exited: os.Exit(0), logrus.Fatal or a panic.
Terminated == pc \in { "done", "fatal", "panic" }

\* main() is at a statement it can execute.
Running ==
    pc \in { "open", "read", "decode", "report", "wave", "loop", "patch", "container",
             "close", "exit" }

\* The program is sequential and nothing suspends it: it keeps taking steps
\* until it has exited.  (Weak fairness of Next, with "Next is enabled" stated
\* as "not Terminated": each statement before the exit can be executed.)
FairSpec == Spec /\ ([]<>Terminated \/ []<><<Next>>_vars)

(***************************************************************************)
(* The container as a function of the input, main() lines 95-169 run as a  *)
(* whole: used to compare the containers of two inputs.                    *)
(***************************************************************************)
RECURSIVE Encode(_, _, _)
Encode(c, b, idx) ==
    IF idx < NumGroups(c)
    THEN Encode(c, b \o SampleBytes(c, idx), idx + 1)
    ELSE b

Container(c) == PatchSizes(Encode(c, WaveHeader(SampleRateOf(HeaderBytes(c))), 0))

(***************************************************************************)
(* Properties                                                              *)
(***************************************************************************)
LongEnough == Len(input.data) >= HeaderSize

Did(step) == \E k \in 1..Len(events) : events[k] = step

\* The unsigned value of the 4 little-endian bytes of b from 0-based offset at
\* (for values below 2^31).
Field(b, at) == b[at + 1] + 256 * b[at + 2] + 65536 * b[at + 3] + 16777216 * b[at + 4]

\* The length of the sample stream, the input from offset 32 on.
StreamLen == Len(input.data) - StartIndex

\* C3: for every input of at least 32 bytes, once the size fields are patched
\* the container's bytes [4:8) hold its length minus 8 and its bytes [40:44)
\* its length minus 44, in the body and in the file written from it; an empty
\* sample region gives the 44-byte header alone, with 36 and 0 in the fields.
C3_BackPatch ==
    LongEnough =>
        /\ pc \in { "container", "close", "exit", "done" } =>
              /\ Field(body, 4) = Len(body) - 8
              /\ Field(body, 40) = Len(body) - 44
              /\ StreamLen = 0 =>
                    Len(body) = 44 /\ Field(body, 4) = 36 /\ Field(body, 40) = 0
        /\ wavFile.state = "complete" =>
              /\ Field(wavFile.data, 4) = Len(wavFile.data) - 8
              /\ Field(wavFile.data, 40) = Len(wavFile.data) - 44

C3_Witness ==
    /\ pc = "done"
    /\ wavFile.state = "complete"
    /\ Len(wavFile.data) = 48
    /\ Field(wavFile.data, 4) = 40
    /\ Field(wavFile.data, 40) = 4

\* C4: for a sample stream of n bytes the payload after the 44-byte header is
\* floor(n/4) * 2 bytes long once the loop has ended (2 * i bytes while it
\* runs), and a trailing partial group of 1 to 3 bytes raises no error.
C4_PayloadLength ==
    LongEnough =>
        /\ pc # "panic"
        /\ pc = "loop" => Len(body) = WaveHeaderSize + 2 * i
        /\ Did("encode") => Len(body) - WaveHeaderSize = (StreamLen \div 4) * 2
        /\ wavFile.state = "complete" =>
              Len(wavFile.data) - WaveHeaderSize = (StreamLen \div 4) * 2

C4_Witness ==
    /\ pc = "done"
    /\ StreamLen = 7
    /\ wavFile.state = "complete"
    /\ Len(wavFile.data) = 46

\* C6: the k-th 16-bit little-endian payload sample is bits [8:24) of the k-th
\* 4-byte group, i.e. the group's bytes 1 and 2 in that order, whatever the
\* group's bytes 0 and 3 (bits [0:8) and [24:32)) are.
C6_SampleBits ==
    (LongEnough /\ Len(body) >= WaveHeaderSize) =>
        \A k \in 0..(((Len(body) - WaveHeaderSize) \div 2) - 1) :
            /\ body[WaveHeaderSize + 2 * k + 1] = content[StartIndex + 4 * k + 2]
            /\ body[WaveHeaderSize + 2 * k + 2] = content[StartIndex + 4 * k + 3]

\* A group with bit 23 set and bits in [0:8) and [24:32): 0x7F8000FF gives 0x8000.
C6_Witness ==
    /\ pc = "done"
    /\ Len(content) >= StartIndex + 4
    /\ SubSeq(content, StartIndex + 1, StartIndex + 4) = << 255, 0, 128, 127 >>
    /\ SubSeq(wavFile.data, WaveHeaderSize + 1, WaveHeaderSize + 2) = << 0, 128 >>

\* C1: a run on an input shorter than 32 bytes reads no header field and
\* writes neither the report nor the container (the part of the claim that
\* does not depend on how the run's end is reported).
C1_TruncatedInput ==
    (~LongEnough /\ Did("read")) =>
        /\ h = ZeroHeader
        /\ reportFile = Absent
        /\ wavFile = Absent

\* C2: a run ends with both output files written or with neither (stated for
\* the inputs that hold a whole header, where no precondition fails).
C2_BothOrNeither ==
    (LongEnough /\ Terminated) =>
        (reportFile.state = "complete") = (wavFile.state = "complete")

\* C5: when sample_rate * 4 fits in 32 bits (sample_rate < 2^30), the
\* container's bytes [28:32) hold sample_rate * 4 and its bytes [24:28) hold
\* sample_rate.
C5_ByteRate ==
    (LongEnough /\ Len(body) >= WaveHeaderSize /\ h.SampleRate[1] < 16384) =>
        /\ Uint32(Slice(body, 28, 32)) = MulU32(h.SampleRate, 4)
        /\ Uint32(Slice(body, 24, 28)) = h.SampleRate
        /\ Slice(body, 24, 28) = Slice(input.data, 0, 4)

\* C7: a checksum mismatch is never fatal.  A run on an input of at least 32
\* bytes whose stored checksum is wrong never panics, stops early only on an
\* I/O failure, logs the mismatch at info level, and when it completes both
\* files are written and the report says CRC: false; and every such run comes
\* to an end.
C7_MismatchSafe ==
    (LongEnough /\ input.stored = "wrong") =>
        /\ Running \/ Terminated
        /\ pc # "panic"
        /\ pc = "fatal" => ioFailed
        /\ Did("decode") =>
              /\ ~h.CRCValid
              /\ \E k \in 1..Len(log) : log[k] = Info("CRC mismatch", 0)
        /\ pc = "done" =>
              /\ exitCode = 0
              /\ reportFile.state = "complete"
              /\ reportFile.data.CRC = "false"
              /\ wavFile.state = "complete"

\* C7: the safety part holds in every state, and a run on such an input
\* reaches normal completion unless an I/O operation fails.
C7_MismatchNotFatal ==
    /\ []C7_MismatchSafe
    /\ (LongEnough /\ input.stored = "wrong") ~> (pc = "done" \/ ioFailed)

C7_Witness ==
    /\ pc = "done"
    /\ input.stored = "wrong"
    /\ ~ioFailed
    /\ reportFile.state = "complete"
    /\ reportFile.data.CRC = "false"
    /\ wavFile.state = "complete"
    /\ Len(wavFile.data) > WaveHeaderSize

\* The header of sample_rate 8000 and zeros, with the CRC-32 of its bytes
\* [0:28) (0xA32C0BF0) stored little-endian.
ScenarioHeader ==
    << 64, 31, 0, 0 >> \o [k \in 1..24 |-> 0] \o << 240, 11, 44, 163 >>

\* C8: crc_valid is true exactly when the CRC-32/IEEE of the header's bytes
\* [0:28) is the little-endian value of its bytes [28:32); so it is true of a
\* header stored with its checksum, false of one stored with another value,
\* and false once a single bit of the bytes [0:28) is flipped and the stored
\* value kept.
C8_CrcValid ==
    (LongEnough /\ Did("decode")) =>
        /\ input.stored = "right" => h.CRCValid
        /\ input.stored = "wrong" => ~h.CRCValid
        /\ input.kind = "flipped" => ~h.CRCValid
        /\ pc = "report" =>
              h.CRCValid =
                 (ChecksumIEEE(SubSeq(input.data, 1, 28))
                    = << input.data[32] * 256 + input.data[31],
                         input.data[30] * 256 + input.data[29] >>)

C8_Witness ==
    /\ pc = "done"
    /\ SubSeq(input.data, 1, HeaderSize) = ScenarioHeader
    /\ h.CRCValid
    /\ reportFile.data.CRC = "true"

Twins(data) ==
    { Slice(data, 0, 4) \o Slice(hd, 4, HeaderSize) \o Slice(data, StartIndex, Len(data)) :
        hd \in Headers }

\* C10: the container depends on the header through sample_rate alone: the
\* container written for an input of at least 32 bytes is, byte for byte, the
\* container of every input that agrees with it on bytes [0:4) and from offset
\* 32 on, whatever the bytes [4:32) are (a right or a wrong checksum included).
C10_ContainerIgnoresRest ==
    (LongEnough /\ wavFile.state = "complete") =>
        \A twin \in Twins(input.data) : Container(twin) = wavFile.data

C10_Witness ==
    /\ pc = "done"
    /\ input.stored = "wrong"
    /\ wavFile.state = "complete"
    /\ Len(wavFile.data) = 48
    /\ \E twin \in Twins(input.data) :
          /\ twin # input.data
          /\ DecodeHeader(HeaderBytes(twin)).CRCValid

=============================================================================
